---- MODULE Spec2Model ----
(***************************************************************************)
(* The edit_code tool of godoctor (src/internal/tools/godoc/godoc.go,      *)
(* second package of the file: editCodeHandler, findMatches,               *)
(* lineIndexToByteIndex), modelled as a state machine over one target      *)
(* file.  Documents are byte strings, modelled as sequences of one-byte    *)
(* strings over a small alphabet; byte offsets are 0-based as in Go.       *)
(* Further sections model the write-then-revert edit_code of               *)
(* src/internal/tools/edit_code/edit_code.go (SpecEdit), the scalpel tool  *)
(* of src/internal/tool/scalpel/scalpel.go (SpecScalpel) and write_code of *)
(* src/internal/tools/write_code/write_code.go (SpecWrite); each           *)
(* specification gives the variables below the meaning its section states. *)
(***************************************************************************)
EXTENDS Integers, Sequences, FiniteSets, TLC

VARIABLES
    file,      \* content of the target path on disk, or NoFile
    pc,        \* "idle": no invocation yet; "done": the last one has returned
    pre,       \* content of the target path when the last invocation started
    req,       \* EditCodeParams of the last invocation
    res,       \* CallToolResult of the last invocation
    trace,     \* what the last invocation computed on its way
    prevRes    \* result of the invocation before it, when the request was resubmitted

vars == <<file, pc, pre, req, res, trace, prevRes>>

-----------------------------------------------------------------------------
(* Bytes and strings *)

NL == "\n"
SP == " "

\* the target path does not exist (its directory does); a value not yet computed
NoFile == <<"NoFile">>
None   == <<"None">>

\* s[from:to] of Go, 0-based, to exclusive
Slice(s, from, to) == SubSeq(s, from + 1, to)

\* strings.Index: the 0-based offset of the first occurrence of sub in s, -1 if none
Index(s, sub) ==
    LET hits == {i \in 0..(Len(s) - Len(sub)) : Slice(s, i, i + Len(sub)) = sub}
    IN  IF hits = {} THEN -1 ELSE CHOOSE i \in hits : \A j \in hits : i <= j

\* strings.Contains
Contains(s, sub) == Index(s, sub) # -1

\* strings.Count(s, "\n")
CountNL(s) == Cardinality({i \in 1..Len(s) : s[i] = NL})

\* strings.Split(s, "\n"): always at least one line
Split(s) ==
    LET F[i \in 0..Len(s)] ==
            IF i = 0 THEN << <<>> >>
            ELSE IF s[i] = NL THEN Append(F[i - 1], <<>>)
            ELSE [F[i - 1] EXCEPT ![Len(F[i - 1])] = Append(@, s[i])]
    IN  F[Len(s)]

\* strings.Join(lines, "\n")
Join(lines) ==
    LET F[i \in 0..Len(lines)] ==
            IF i = 0 THEN <<>>
            ELSE IF i = 1 THEN lines[1]
            ELSE F[i - 1] \o <<NL>> \o lines[i]
    IN  F[Len(lines)]

IsSpace(c) == c \in {SP, NL}

\* strings.TrimSpace
TrimSpace(s) ==
    LET keep == {i \in 1..Len(s) : ~IsSpace(s[i])}
    IN  IF keep = {} THEN <<>>
        ELSE SubSeq(s, CHOOSE i \in keep : \A j \in keep : i <= j,
                       CHOOSE i \in keep : \A j \in keep : i >= j)

-----------------------------------------------------------------------------
(* Matching logic *)

\* threshold used when the request leaves it out, in hundredths
DefaultThreshold == 90

\* the comparison with a score equal to the threshold left out
ScoreAtLeast_Strict(num, den, threshold) == num * 100 > threshold * den

\* score >= threshold for score = num/den and threshold in hundredths
ScoreAtLeast(num, den, threshold) == num * 100 >= threshold * den

\* the sum of the line lengths, not capped at the length of s
lineIndexToByteIndex_NoCap(s, lineIdx) ==
    LET lines == Split(s)
        F[i \in 0..Len(lines)] ==
            IF i = 0 THEN 0 ELSE F[i - 1] + Len(lines[i]) + 1
        n   == IF lineIdx < Len(lines) THEN lineIdx ELSE Len(lines)
    IN  F[IF n < 0 THEN 0 ELSE n]

lineIndexToByteIndex(s, lineIdx) ==
    LET lines == Split(s)
        F[i \in 0..Len(lines)] ==
            IF i = 0 THEN 0 ELSE F[i - 1] + Len(lines[i]) + 1
        n   == IF lineIdx < Len(lines) THEN lineIdx ELSE Len(lines)
        idx == F[IF n < 0 THEN 0 ELSE n]
    IN  IF idx > Len(s) THEN Len(s) ELSE idx

\* the count of matching lines with the lines compared as they are
WindowMatchCount_NoTrim(contentLines, contextLines, i) ==
    Cardinality({j \in 1..Len(contextLines) :
        LET lineContent == contentLines[i + j]
            lineContext == contextLines[j]
        IN  lineContent = lineContext \/ Contains(lineContent, lineContext)})

\* number of lines of the window starting at line i (0-based) that equal or
\* contain the corresponding trimmed context line
WindowMatchCount(contentLines, contextLines, i) ==
    Cardinality({j \in 1..Len(contextLines) :
        LET lineContent == TrimSpace(contentLines[i + j])
            lineContext == TrimSpace(contextLines[j])
        IN  lineContent = lineContext \/ Contains(lineContent, lineContext)})

\* a pass that takes the whole document for the one window
FuzzyMatches_WholeDocument(content, context, threshold) ==
    << [StartIndex |-> 0, EndIndex |-> Len(content), StartLine |-> 1,
        Score |-> <<1, 1>>] >>

\* the line-window pass of findMatches
FuzzyMatches(content, context, threshold) ==
    LET contentLines == Split(content)
        contextLines == Split(context)
        n == Len(contextLines)
        last == Len(contentLines) - n
        F[i \in -1..last] ==
            IF i = -1 THEN <<>>
            ELSE LET matchCount == WindowMatchCount(contentLines, contextLines, i)
                 IN  IF ScoreAtLeast(matchCount, n, threshold)
                     THEN Append(F[i - 1],
                                 [StartIndex |-> lineIndexToByteIndex(content, i),
                                  EndIndex   |-> lineIndexToByteIndex(content, i + n),
                                  StartLine  |-> i + 1,
                                  Score      |-> <<matchCount, n>>])
                     ELSE F[i - 1]
    IN  IF last < 0 THEN <<>> ELSE F[last]

\* findMatches without the exact-match shortcut
findMatches_NoShortcut(content, context, threshold) ==
    [matches |-> FuzzyMatches(content, context, threshold), fuzzy |-> TRUE]

\* findMatches: the matches, and whether the line-window scoring was run
findMatches(content, context, threshold) ==
    LET idx == Index(content, context)
    IN  IF idx # -1
        THEN [matches |-> << [StartIndex |-> idx,
                              EndIndex   |-> idx + Len(context),
                              StartLine  |-> CountNL(Slice(content, 0, idx)) + 1,
                              Score      |-> <<1, 1>>] >>,
              fuzzy |-> FALSE]
        ELSE [matches |-> FuzzyMatches(content, context, threshold),
              fuzzy |-> TRUE]

-----------------------------------------------------------------------------
(* The external collaborators: go/parser and golang.org/x/tools/imports.    *)
(* A document parses when it holds at least one token and no malformed one *)
(* ("x" stands for any text the Go parser rejects); formatting trims every *)
(* line, drops leading and trailing blank lines, collapses runs of blank   *)
(* lines and ends the document with one line terminator.                   *)

Bad == "x"

\* parser.ParseFile(fset, "", src, parser.AllErrors) returns no error
Parses(s) ==
    /\ \E i \in 1..Len(s) : ~IsSpace(s[i])
    /\ \A i \in 1..Len(s) : s[i] # Bad

\* the bytes imports.Process returns for a source that parses
Format(s) ==
    LET lines == Split(s)
        blank(i) == TrimSpace(lines[i]) = <<>>
        kept(i) == \/ ~blank(i)
                   \/ /\ i > 1
                      /\ ~blank(i - 1)
                      /\ \E k \in (i + 1)..Len(lines) : ~blank(k)
        F[i \in 0..Len(lines)] ==
            IF i = 0 THEN <<>>
            ELSE IF kept(i) THEN Append(F[i - 1], TrimSpace(lines[i]))
            ELSE F[i - 1]
    IN  Join(F[Len(lines)]) \o <<NL>>

-----------------------------------------------------------------------------
(* editCodeHandler *)

\* neither the target path nor its directory exists
NoDir == <<"NoDir">>

\* os.ReadFile fails with an error for which os.IsNotExist holds
NotExist(f) == f \in {NoFile, NoDir}

errorResult(kind, lines) ==
    [IsError |-> TRUE, kind |-> kind, lines |-> lines, bestMatchMsg |-> <<>>]

successResult ==
    [IsError |-> FALSE, kind |-> "success", lines |-> <<>>, bestMatchMsg |-> <<>>]

NoTrace ==
    [matcher |-> "none", candidates |-> <<>>, threshold |-> 0,
     transformed |-> None, formatted |-> None, wrote |-> FALSE]

\* the lines the ambiguity message lists, in candidate order
StartLines(candidates) == [k \in 1..Len(candidates) |-> candidates[k].StartLine]

\* a splice that keeps the matched text after the replacement
Splice_KeepsTarget(originalContent, match, newContent) ==
    Slice(originalContent, 0, match.StartIndex) \o newContent
        \o Slice(originalContent, match.StartIndex, Len(originalContent))

\* step 2 for the replace strategies: the splice of the first candidate
Splice(originalContent, match, newContent) ==
    Slice(originalContent, 0, match.StartIndex) \o newContent
        \o Slice(originalContent, match.EndIndex, Len(originalContent))

\* the commit made before the validation, and not reverted
ValidateAndCommit_WriteFirst(f, newContentStr, tr, env) ==
    LET t1 == [tr EXCEPT !.transformed = newContentStr, !.wrote = TRUE] IN
    IF ~Parses(newContentStr)
    THEN [file |-> newContentStr, res |-> errorResult("syntax_pre", <<>>), trace |-> t1]
    ELSE [file |-> Format(newContentStr), res |-> successResult,
          trace |-> [t1 EXCEPT !.formatted = Format(newContentStr)]]

\* the commit of the content as it was before formatting
ValidateAndCommit_WriteUnformatted(f, newContentStr, tr, env) ==
    LET t1 == [tr EXCEPT !.transformed = newContentStr] IN
    IF ~Parses(newContentStr)
    THEN [file |-> f, res |-> errorResult("syntax_pre", <<>>), trace |-> t1]
    ELSE [file |-> newContentStr, res |-> successResult,
          trace |-> [t1 EXCEPT !.formatted = Format(newContentStr), !.wrote = TRUE]]

\* the directory of the target path created before the validation
ValidateAndCommit_MkdirFirst(f, newContentStr, tr, env) ==
    LET t1 == [tr EXCEPT !.transformed = newContentStr]
        g  == IF f = NoDir THEN NoFile ELSE f
    IN
    IF ~Parses(newContentStr)
    THEN [file |-> g, res |-> errorResult("syntax_pre", <<>>), trace |-> t1]
    ELSE [file |-> Format(newContentStr), res |-> successResult,
          trace |-> [t1 EXCEPT !.formatted = Format(newContentStr), !.wrote = TRUE]]

\* the formatter's failure reported as it is, whatever the candidate content
ValidateAndCommit_NoClassify(f, newContentStr, tr, env) ==
    LET t1 == [tr EXCEPT !.transformed = newContentStr] IN
    IF ~Parses(newContentStr) \/ env = "imports_error"
    THEN [file |-> f, res |-> errorResult("goimports_failed", <<>>), trace |-> t1]
    ELSE [file |-> Format(newContentStr), res |-> successResult,
          trace |-> [t1 EXCEPT !.formatted = Format(newContentStr), !.wrote = TRUE]]

\* steps 3 to 5: validation in memory, then the commit to disk.
\* env names the step the environment makes fail, if any.
ValidateAndCommit(f, newContentStr, tr, env) ==
    LET t1 == [tr EXCEPT !.transformed = newContentStr] IN
    IF ~Parses(newContentStr)
    THEN [file |-> f, res |-> errorResult("syntax_pre", <<>>), trace |-> t1]
    ELSE IF env = "imports_error"
    THEN [file |-> f, res |-> errorResult("goimports_failed", <<>>), trace |-> t1]
    ELSE
    LET formattedBytes == Format(newContentStr)
        t2 == [t1 EXCEPT !.formatted = formattedBytes]
        t3 == [t2 EXCEPT !.wrote = TRUE]
    IN  IF ~Parses(formattedBytes)
        THEN [file |-> f, res |-> errorResult("syntax_post", <<>>), trace |-> t2]
        ELSE IF env = "mkdir_error"
        THEN [file |-> f, res |-> errorResult("mkdir_failed", <<>>), trace |-> t2]
        ELSE IF env = "write_open_error"
        THEN [file |-> IF f = NoDir THEN NoFile ELSE f,
              res |-> errorResult("write_failed", <<>>), trace |-> t3]
        ELSE IF env = "write_short_error"
        THEN [file |-> <<>>, res |-> errorResult("write_failed", <<>>), trace |-> t3]
        ELSE [file |-> formattedBytes, res |-> successResult, trace |-> t3]

\* the handler without its check of the search context
editCodeHandler_NoEmptyCheck(f, args, env) ==
    LET Strategy  == IF args.Strategy = "" THEN "single_match" ELSE args.Strategy
        Threshold == IF args.Threshold = 0 THEN DefaultThreshold ELSE args.Threshold
    IN
    IF (NotExist(f) /\ Strategy # "overwrite_file") \/ (~NotExist(f) /\ env = "read_error")
    THEN [file |-> f, res |-> errorResult("read_failed", <<>>), trace |-> NoTrace]
    ELSE
    LET originalContent == IF NotExist(f) THEN <<>> ELSE f IN
    IF Strategy = "overwrite_file"
    THEN ValidateAndCommit(f, args.NewContent, NoTrace, env)
    ELSE
    LET found == findMatches(originalContent, args.SearchContext, Threshold)
        candidates == found.matches
        tr == [NoTrace EXCEPT !.matcher = IF found.fuzzy THEN "fuzzy" ELSE "exact",
                              !.candidates = candidates,
                              !.threshold = Threshold]
    IN  IF Len(candidates) = 0
        THEN [file |-> f, res |-> errorResult("no_match", <<>>), trace |-> tr]
        ELSE IF Strategy = "single_match" /\ Len(candidates) > 1
        THEN [file |-> f, res |-> errorResult("ambiguous", StartLines(candidates)),
              trace |-> tr]
        ELSE ValidateAndCommit(f, Splice(originalContent, candidates[1], args.NewContent),
                               tr, env)

editCodeHandler(f, args, env) ==
    LET Strategy  == IF args.Strategy = "" THEN "single_match" ELSE args.Strategy
        Threshold == IF args.Threshold = 0 THEN DefaultThreshold ELSE args.Threshold
    IN
    IF (NotExist(f) /\ Strategy # "overwrite_file") \/ (~NotExist(f) /\ env = "read_error")
    THEN [file |-> f, res |-> errorResult("read_failed", <<>>), trace |-> NoTrace]
    ELSE
    LET originalContent == IF NotExist(f) THEN <<>> ELSE f IN
    IF Strategy = "overwrite_file"
    THEN ValidateAndCommit(f, args.NewContent, NoTrace, env)
    ELSE IF args.SearchContext = <<>>
    THEN [file |-> f, res |-> errorResult("search_context_required", <<>>),
          trace |-> NoTrace]
    ELSE
    LET found == findMatches(originalContent, args.SearchContext, Threshold)
        candidates == found.matches
        tr == [NoTrace EXCEPT !.matcher = IF found.fuzzy THEN "fuzzy" ELSE "exact",
                              !.candidates = candidates,
                              !.threshold = Threshold]
    IN  IF Len(candidates) = 0
        THEN [file |-> f, res |-> errorResult("no_match", <<>>), trace |-> tr]
        ELSE IF Strategy = "single_match" /\ Len(candidates) > 1
        THEN [file |-> f, res |-> errorResult("ambiguous", StartLines(candidates)),
              trace |-> tr]
        ELSE ValidateAndCommit(f, Splice(originalContent, candidates[1], args.NewContent),
                               tr, env)

-----------------------------------------------------------------------------
(* Inputs *)

\* lines a document on disk is made of, and the most lines it starts with
MaxLines == 3

DocLines == { <<"a">>, <<SP, "a">>, <<>> }

LineSeqs(S, n) == UNION { [1..k -> S] : k \in 1..n }

Docs == { Join(ls) : ls \in LineSeqs(DocLines, MaxLines) }

\* search contexts of one and of two lines
Contexts ==
    DocLines \cup { Join(<<l1, l2>>) : l1 \in DocLines, l2 \in DocLines }
        \cup { <<"b">> }

NewContents ==
    { <<>>, <<"a">>, <<"b">>, <<Bad>>, <<"b", NL, "a">> }

\* in hundredths; 0 is the zero value of a request that leaves the threshold out
Thresholds == {0, 50, 100}

Requests ==
    [Strategy : {"single_match", "replace_all"}, SearchContext : Contexts,
     NewContent : NewContents, Threshold : Thresholds]
    \cup
    [Strategy : {"overwrite_file"}, SearchContext : {<<>>, <<"a">>},
     NewContent : NewContents, Threshold : {0}]

\* the step of an invocation the environment makes fail
Envs == {"ok", "read_error", "imports_error", "mkdir_error",
         "write_open_error", "write_short_error"}

\* the failures that can change the outcome of a request: a step the
\* invocation never reaches cannot fail
Faults(f, args) ==
    LET ok == editCodeHandler(f, args, "ok") IN
    {"ok"}
    \cup (IF NotExist(f) THEN {} ELSE {"read_error"})
    \cup (IF ok.trace.formatted = None THEN {}
          ELSE {"imports_error", "mkdir_error", "write_open_error", "write_short_error"})

NoReq == [Strategy |-> "none", SearchContext |-> <<>>, NewContent |-> <<>>,
          Threshold |-> 0]
NoRes == [IsError |-> FALSE, kind |-> "none", lines |-> <<>>, bestMatchMsg |-> <<>>]

-----------------------------------------------------------------------------
(* The state machine.  A behaviour is one invocation of edit_code on a file *)
(* in any of the initial states, followed at the caller's choice by the    *)
(* same request submitted again; the handler keeps nothing between         *)
(* invocations but the file itself.                                        *)

Init ==
    /\ file \in Docs \cup {NoFile, NoDir}
    /\ pc = "idle"
    /\ pre = file
    /\ req = NoReq
    /\ res = NoRes
    /\ trace = NoTrace
    /\ prevRes = NoRes

\* a caller invokes edit_code and the handler runs to its return
Invoke ==
    /\ pc = "idle"
    /\ \E args \in Requests : \E env \in Faults(file, args) :
        LET out == editCodeHandler(file, args, env) IN
        /\ file' = out.file
        /\ pre' = file
        /\ req' = args
        /\ res' = out.res
        /\ trace' = out.trace
    /\ pc' = "done"
    /\ prevRes' = NoRes

\* the caller submits the request it has just made a second time
Resubmit ==
    /\ pc = "done"
    /\ prevRes = NoRes
    /\ \E env \in Faults(file, req) :
        LET out == editCodeHandler(file, req, env) IN
        /\ file' = out.file
        /\ pre' = file
        /\ res' = out.res
        /\ trace' = out.trace
    /\ prevRes' = res
    /\ UNCHANGED <<pc, req>>

Next == Invoke \/ Resubmit

Spec == Init /\ [][Next]_vars

-----------------------------------------------------------------------------
(* Vocabulary of the properties *)

Done == pc = "done"
Resubmitted == pc = "done" /\ prevRes.kind # "none"
IsReplace == req.Strategy \in {"single_match", "replace_all"}

\* the failure kinds of section 7 of the specification
ValidationKinds == {"syntax_pre", "goimports_failed", "syntax_post"}
IOKinds == {"mkdir_failed", "write_failed"}
\* the failures only the environment brings about, for content that parses
EnvKinds == IOKinds \cup {"read_failed", "goimports_failed"}
\* "failed to read file" is the one message for a missing and an unreadable file
InvalidRequestKinds == {"search_context_required", "read_failed"}

\* the 0-based offsets of the occurrences of sub in s, left to right, none
\* overlapping an earlier one
RECURSIVE OccurrencesFrom(_, _, _)
OccurrencesFrom(s, sub, i) ==
    IF i + Len(sub) > Len(s) THEN <<>>
    ELSE IF Slice(s, i, i + Len(sub)) = sub
         THEN <<i>> \o OccurrencesFrom(s, sub, i + Len(sub))
         ELSE OccurrencesFrom(s, sub, i + 1)

Occurrences(s, sub) == OccurrencesFrom(s, sub, 0)

\* the 1-based line an offset lies on
LineOf(s, offset) == CountNL(Slice(s, 0, offset)) + 1

\* s with every target span replaced by new, the text between them kept;
\* targets ascend by StartIndex and do not overlap
RECURSIVE ReplaceSpans(_, _, _, _)
ReplaceSpans(s, targets, new, k) ==
    IF k > Len(targets) THEN
        Slice(s, IF Len(targets) = 0 THEN 0 ELSE targets[Len(targets)].EndIndex, Len(s))
    ELSE Slice(s, IF k = 1 THEN 0 ELSE targets[k - 1].EndIndex, targets[k].StartIndex)
            \o new \o ReplaceSpans(s, targets, new, k + 1)

Overlap(m1, m2) == m1.StartIndex < m2.EndIndex /\ m2.StartIndex < m1.EndIndex

NonOverlapping(ms) ==
    \A i \in 1..Len(ms), j \in 1..Len(ms) :
        i < j => ms[i].EndIndex <= ms[j].StartIndex

OccurrenceSpans(s, sub) ==
    [k \in 1..Len(Occurrences(s, sub)) |->
        [StartIndex |-> Occurrences(s, sub)[k],
         EndIndex |-> Occurrences(s, sub)[k] + Len(sub)]]

-----------------------------------------------------------------------------
(* C1: no partial writes.  For an existing file, an invocation whose        *)
(* candidate content fails validation (the formatter fails, or the content *)
(* does not parse) returns an error and leaves the file as it was; the     *)
(* target path is written only after validation has succeeded.             *)
C1_NoPartialWrites ==
    Done =>
        /\ (trace.transformed # None /\ ~Parses(trace.transformed))
              => res.kind \in ValidationKinds
        /\ (~NotExist(pre) /\ res.kind \in ValidationKinds)
              => res.IsError /\ file = pre /\ ~trace.wrote
        /\ trace.wrote
              => /\ trace.formatted # None
                 /\ Parses(trace.transformed)
                 /\ Parses(trace.formatted)
        /\ (~trace.wrote /\ ~NotExist(pre)) => file = pre

C1_Witness ==
    /\ Done
    /\ ~NotExist(pre)
    /\ req.Strategy = "single_match"
    /\ res.kind = "syntax_pre"
    /\ trace.transformed # pre
    /\ file = pre

(* C2: ambiguity under single_match.  When the search context has more     *)
(* than one candidate (two or more verbatim occurrences, or several        *)
(* windows returned by the matcher), single_match fails with the ambiguity *)
(* error, lists the start line of each, and leaves the file unchanged.     *)
C2_AmbiguousSingleMatch ==
    (Done /\ req.Strategy = "single_match" /\ trace.matcher # "none"
          /\ TrimSpace(req.SearchContext) # <<>>) =>
        /\ Len(trace.candidates) > 1 =>
              /\ res.kind = "ambiguous"
              /\ res.lines = StartLines(trace.candidates)
              /\ file = pre
        /\ Len(Occurrences(pre, req.SearchContext)) > 1 =>
              /\ res.kind = "ambiguous"
              /\ res.lines = [k \in 1..Len(Occurrences(pre, req.SearchContext)) |->
                                LineOf(pre, Occurrences(pre, req.SearchContext)[k])]
              /\ file = pre

(* C3: replace_all replaces every occurrence.  When the search context     *)
(* occurs verbatim N >= 1 times, the content replace_all produces has each *)
(* occurrence replaced by new_content.                                     *)
C3_ReplaceAllEveryOccurrence ==
    (Done /\ req.Strategy = "replace_all" /\ trace.matcher # "none"
          /\ TrimSpace(req.SearchContext) # <<>>
          /\ Len(Occurrences(pre, req.SearchContext)) >= 1) =>
        /\ trace.transformed # None
        /\ trace.transformed =
              ReplaceSpans(pre, OccurrenceSpans(pre, req.SearchContext),
                           req.NewContent, 1)

(* C4: exact-match precedence.  Whenever the search context occurs         *)
(* verbatim in the content the matcher returns that occurrence alone, the  *)
(* first one, with score 1, and does not run the line-window scoring,      *)
(* whatever the threshold.                                                 *)
C4_ExactMatchPrecedence ==
    (Done /\ trace.matcher # "none" /\ Contains(pre, req.SearchContext)) =>
        /\ trace.matcher = "exact"
        /\ Len(trace.candidates) = 1
        /\ LET m == trace.candidates[1] IN
            /\ m.Score = <<1, 1>>
            /\ Slice(pre, m.StartIndex, m.EndIndex) = req.SearchContext
            /\ m.StartIndex = Occurrences(pre, req.SearchContext)[1]
            /\ m.StartLine = LineOf(pre, m.StartIndex)

C4_Witness ==
    /\ Done
    /\ trace.matcher = "exact"
    /\ req.Threshold = 50
    /\ Len(Split(req.SearchContext)) = 2
    /\ trace.candidates[1].StartIndex > 0
    /\ Len(Occurrences(pre, req.SearchContext)) = 1

\* some window of content agrees with the search context on a line that is
\* not blank
NearMatch(content, context) ==
    \E i \in 0..(Len(Split(content)) - Len(Split(context))) :
        \E j \in 1..Len(Split(context)) :
            /\ TrimSpace(Split(context)[j]) # <<>>
            /\ TrimSpace(Split(content)[i + j]) = TrimSpace(Split(context)[j])

(* C5: NoMatch carries the best candidate.  When no window reaches the     *)
(* threshold the invocation fails with NoMatch and leaves the file         *)
(* unchanged, and when some window of the document agrees with the search  *)
(* context on a line the message names the best-scoring window with a      *)
(* diff.                                                                   *)
C5_NoMatchCarriesBest ==
    (Done /\ trace.matcher # "none" /\ Len(trace.candidates) = 0) =>
        /\ res.kind = "no_match"
        /\ file = pre
        /\ NearMatch(pre, req.SearchContext) => res.bestMatchMsg # <<>>

(* C6: the single_match splice.  When single_match reaches the transform,  *)
(* exactly one candidate is the target and the content before formatting   *)
(* is content[:start] + replacement + content[end:]: the bytes before the  *)
(* target and from its end on are carried over in order; on success the    *)
(* file holds that content, formatted.                                     *)
C6_SingleMatchSplice ==
    (Done /\ req.Strategy = "single_match" /\ trace.transformed # None) =>
        /\ Len(trace.candidates) = 1
        /\ LET m == trace.candidates[1]
               t == trace.transformed
               d == Len(req.NewContent) - (m.EndIndex - m.StartIndex)
           IN
            /\ 0 <= m.StartIndex /\ m.StartIndex <= m.EndIndex /\ m.EndIndex <= Len(pre)
            /\ Len(t) = Len(pre) + d
            /\ \A i \in 1..m.StartIndex : t[i] = pre[i]
            /\ \A i \in 1..Len(req.NewContent) : t[m.StartIndex + i] = req.NewContent[i]
            /\ \A i \in (m.EndIndex + 1)..Len(pre) : t[i + d] = pre[i]
            /\ res.kind = "success" => file = Format(t)

\* "a\n\n a" with search context " a" and new content "b": "a\n\nb\n"
C6_Witness ==
    /\ Done
    /\ req.Strategy = "single_match"
    /\ pre = <<"a", NL, NL, SP, "a">>
    /\ req.SearchContext = <<SP, "a">>
    /\ req.NewContent = <<"b">>
    /\ res.kind = "success"
    /\ trace.transformed = <<"a", NL, NL, "b">>
    /\ file = <<"a", NL, NL, "b", NL>>

(* C7, as stated: overwrite_file with content C applied twice leaves the   *)
(* file holding C after each call and succeeds both times (read for        *)
(* content that parses and runs in which no step fails in the              *)
(* environment).                                                           *)
C7_OverwriteTwiceYieldsC ==
    (Resubmitted /\ req.Strategy = "overwrite_file" /\ Parses(req.NewContent)
        /\ prevRes.kind \notin EnvKinds
        /\ res.kind \notin EnvKinds) =>
        /\ ~prevRes.IsError
        /\ ~res.IsError
        /\ pre = req.NewContent
        /\ file = req.NewContent

(* C7, amended: overwrite_file with content C that parses, applied twice    *)
(* with no step of either call failing in the environment, succeeds both   *)
(* times and leaves the file holding the formatter's output for C after    *)
(* each call.                                                              *)
C7_OverwriteTwiceYieldsFormatted ==
    (Resubmitted /\ req.Strategy = "overwrite_file" /\ Parses(req.NewContent)
        /\ prevRes.kind \notin EnvKinds
        /\ res.kind \notin EnvKinds) =>
        /\ ~prevRes.IsError
        /\ ~res.IsError
        /\ pre = Format(req.NewContent)
        /\ file = Format(req.NewContent)

C7_Witness ==
    /\ Resubmitted
    /\ req.Strategy = "overwrite_file"
    /\ req.NewContent = <<"b", NL, "a">>
    /\ prevRes.kind = "success"
    /\ res.kind = "success"
    /\ pre = file
    /\ file = <<"b", NL, "a", NL>>

(* C8: offset safety under replace_all.  With N targets that do not        *)
(* overlap, the content replace_all produces is the original with every    *)
(* target span replaced and the text between the targets kept.             *)
C8_ReplaceAllOffsetSafety ==
    (Done /\ req.Strategy = "replace_all" /\ trace.transformed # None
          /\ NonOverlapping(trace.candidates)) =>
        trace.transformed = ReplaceSpans(pre, trace.candidates, req.NewContent, 1)

(* C9: an empty search context is rejected upstream.  With single_match or *)
(* replace_all and an empty search context the invocation fails as an      *)
(* invalid request before the matcher runs and leaves the file unchanged;  *)
(* overwrite_file is not rejected for it.                                  *)
C9_EmptyContextRejected ==
    (Done /\ req.SearchContext = <<>>) =>
        IF IsReplace
        THEN /\ res.IsError
             /\ res.kind \in InvalidRequestKinds
             /\ trace.matcher = "none"
             /\ trace.transformed = None
             /\ file = pre
        ELSE /\ res.kind # "search_context_required"
             /\ res.kind # "read_failed" => trace.transformed = req.NewContent

C9_Witness ==
    /\ Done
    /\ req.Strategy = "replace_all"
    /\ req.SearchContext = <<>>
    /\ ~NotExist(pre)
    /\ Contains(pre, <<"a">>)
    /\ res.kind = "search_context_required"
    /\ file = pre

(* C10: creation only under overwrite_file.  A path that does not exist is *)
(* created only by overwrite_file with content that passed validation, and *)
(* a successful overwrite_file creates it; single_match and replace_all    *)
(* fail on it and leave the path, and its directory, missing.              *)
C10_CreationOnlyUnderOverwrite ==
    (Done /\ NotExist(pre)) =>
        /\ ~NotExist(file) =>
              /\ req.Strategy = "overwrite_file"
              /\ Parses(req.NewContent)
              /\ trace.formatted # None
        /\ (file # pre) => req.Strategy = "overwrite_file" /\ trace.formatted # None
        /\ IsReplace => res.IsError /\ file = pre
        /\ res.kind = "success" => file = Format(req.NewContent)

C10_Witness ==
    /\ Done
    /\ pre = NoDir
    /\ req.Strategy = "overwrite_file"
    /\ res.kind = "success"
    /\ file = <<"a", NL>>

-----------------------------------------------------------------------------
(* Targets by extension.  EditCodeParams.FilePath names the target; the     *)
(* handler hands it to imports.Process as the file name and never looks at *)
(* its extension, so the same steps run for a .txt target as for a .go     *)
(* target.                                                                 *)

\* filepath.Ext of the target path
Exts == {".go", ".txt"}

RequestsExt ==
    [Strategy : {"single_match", "overwrite_file"}, SearchContext : {<<"a">>},
     NewContent : NewContents, Threshold : {0}, Ext : Exts]

\* a caller invokes edit_code on a target with the extension of its choice
InvokeExt ==
    /\ pc = "idle"
    /\ \E args \in RequestsExt : \E env \in Faults(file, args) :
        LET out == editCodeHandler(file, args, env) IN
        /\ file' = out.file
        /\ pre' = file
        /\ req' = args
        /\ res' = out.res
        /\ trace' = out.trace
    /\ pc' = "done"
    /\ prevRes' = NoRes

NextExt == InvokeExt

SpecExt == Init /\ [][NextExt]_vars

(* C11: non-source files skip validation.  For a target whose extension is *)
(* not .go, neither the formatter nor the syntax checker is run, the       *)
(* candidate content is always valid, and on success the file holds the    *)
(* transformed content exactly (read for a single_match edit of an         *)
(* existing file with new content that is not empty, and no write          *)
(* failing).                                                               *)
C11_NonSourceSkipsValidation ==
    (Done /\ req.Ext # ".go" /\ req.Strategy = "single_match"
          /\ req.NewContent # <<>> /\ trace.transformed # None
          /\ res.kind \notin IOKinds) =>
        /\ trace.formatted = None
        /\ res.kind \notin ValidationKinds
        /\ res.kind = "success"
        /\ file = trace.transformed

-----------------------------------------------------------------------------
(* The write-then-revert edit_code of src/internal/tools/edit_code/         *)
(* edit_code.go (second package of the file): the handler reads the file,  *)
(* applies its edits with strings.Replace, writes the result, runs         *)
(* "gopls check" on the path, and reverts or formats and writes again.     *)
(* Invocations on one path run concurrently, each at its own position; the *)
(* steps below are the handler's accesses to the disk and to gopls.  In    *)
(* the behaviours of SpecEdit pc, req, res and trace hold one value per    *)
(* invocation, and pre is the content when the first one started.          *)

Procs == {1, 2}

\* strings.Replace(s, old, new, 1)
Replace1(s, old, new) ==
    LET idx == Index(s, old) IN
    IF idx = -1 THEN s
    ELSE Slice(s, 0, idx) \o new \o Slice(s, idx + Len(old), Len(s))

\* the loop over the edits, from edit k on
RECURSIVE ApplyEdits(_, _, _)
ApplyEdits(s, edits, k) ==
    IF k > Len(edits) THEN s
    ELSE ApplyEdits(Replace1(s, edits[k].OldString, edits[k].NewString), edits, k + 1)

\* the output of "gopls check" for the content it finds at the path
goCheck(content) == IF Parses(content) THEN <<>> ELSE <<"diagnostics">>

editResult(kind) == [IsError |-> kind # "success", kind |-> kind]

NoEditReq == [Ext |-> "", Edits |-> <<>>]
NoEditRes == [IsError |-> FALSE, kind |-> "none"]

\* the handler's local variables, the position at which its context was
\* cancelled ("" while it is live), and the order number of its last write
NoLocals ==
    [originalContent |-> None, newContent |-> None, check |-> None,
     cancelledAt |-> "", stamp |-> 0, suggestions |-> <<>>]

\* the pattern's bytes occur in s in their order, from byte i of the pattern
\* and byte j of s on
RECURSIVE SubsequenceFrom(_, _, _, _)
SubsequenceFrom(pattern, s, i, j) ==
    IF i > Len(pattern) THEN TRUE
    ELSE IF j > Len(s) THEN FALSE
    ELSE IF pattern[i] = s[j] THEN SubsequenceFrom(pattern, s, i + 1, j + 1)
    ELSE SubsequenceFrom(pattern, s, i, j + 1)

\* fuzzy.Find(pattern, lines): the 0-based indexes of the lines that hold the
\* bytes of the pattern in their order, best score first, nothing for an
\* empty pattern.  The score is a function of the pattern and of the line,
\* and the sort is stable: equal lines keep their order, any order of the
\* others is allowed for.
fuzzyFind(pattern, lines) ==
    IF pattern = <<>> THEN { <<>> }
    ELSE
    LET hits == {i \in 0..(Len(lines) - 1) : SubsequenceFrom(pattern, lines[i + 1], 1, 1)}
        n == Cardinality(hits)
    IN  {m \in [1..n -> hits] :
            /\ \A a, b \in 1..n : a # b => m[a] # m[b]
            /\ \A a, b \in 1..n :
                  (a < b /\ lines[m[a] + 1] = lines[m[b] + 1]) => m[a] < m[b]}

\* the most suggestions listed for one edit
MaxSuggestions == 3

\* the suggestions with every match listed
suggest_All(matches, lines) ==
    [i \in 1..Len(matches) |->
        [text |-> lines[matches[i] + 1], line |-> matches[i] + 1]]

\* the suggestions for one edit: the line and its 1-based number for the
\* first matches
suggest(matches, lines) ==
    [i \in 1..(IF Len(matches) < MaxSuggestions THEN Len(matches) ELSE MaxSuggestions) |->
        [text |-> lines[matches[i] + 1], line |-> matches[i] + 1]]

\* the lists of suggestions the loop over the edits can build, from edit k on
RECURSIVE SuggestionsFrom(_, _, _)
SuggestionsFrom(lines, edits, k) ==
    IF k > Len(edits) THEN { <<>> }
    ELSE { suggest(m, lines) \o rest :
              m \in fuzzyFind(edits[k].OldString, lines),
              rest \in SuggestionsFrom(lines, edits, k + 1) }

\* four lines "a b"
FourLines ==
    <<"a", SP, "b", NL, "a", SP, "b", NL, "a", SP, "b", NL, "a", SP, "b">>

EditDocs == { NoFile, <<"a">>, <<"a", NL, "a", NL>>, FourLines }

Edit(old, new) == [OldString |-> old, NewString |-> new]

EditLists ==
    { << Edit(<<"a">>, <<"b">>) >>,
      << Edit(<<"a">>, <<Bad>>) >>,
      << Edit(<<"b">>, <<"a">>) >>,
      << Edit(<<"a">>, <<"b">>), Edit(<<"b">>, <<Bad>>) >>,
      << Edit(<<"a", "b">>, <<"b">>) >>,
      << Edit(<<"a", "b">>, <<"b">>), Edit(<<"a", "b">>, <<"a">>) >>,
      << Edit(<<"a">>, <<"b">>), Edit(<<"b">>, <<"a">>) >> }

EditRequests == [Ext : Exts, Edits : EditLists]

\* the number of writes made to the path so far
Writes == LET ss == {trace[q].stamp : q \in Procs}
          IN  CHOOSE n \in ss : \A k \in ss : n >= k

InFlight == {"write", "check", "checking", "revert", "format"}

InitEdit ==
    /\ file \in EditDocs
    /\ pc = [p \in Procs |-> "idle"]
    /\ pre = file
    /\ req = [p \in Procs |-> NoEditReq]
    /\ res = [p \in Procs |-> NoEditRes]
    /\ trace = [p \in Procs |-> NoLocals]
    /\ prevRes = NoRes

\* os.Stat, os.ReadFile, the edits, the comparison with the original and
\* the suggestions for edits that changed nothing
EditStart(p) ==
    /\ pc[p] = "idle"
    /\ \E args \in EditRequests : \E env \in {"ok", "read_error"} :
        /\ \A q \in Procs : pc[q] # "idle" => req[q].Ext = args.Ext
        /\ req' = [req EXCEPT ![p] = args]
        /\ IF file = NoFile
           THEN /\ env = "ok"
                /\ pc' = [pc EXCEPT ![p] = "done"]
                /\ res' = [res EXCEPT ![p] = editResult("not_exist")]
                /\ UNCHANGED trace
           ELSE IF env = "read_error"
           THEN /\ pc' = [pc EXCEPT ![p] = "done"]
                /\ res' = [res EXCEPT ![p] = editResult("read_failed")]
                /\ UNCHANGED trace
           ELSE LET newContent == ApplyEdits(file, args.Edits, 1) IN
                IF newContent = file
                THEN /\ \E suggestions \in SuggestionsFrom(Split(file), args.Edits, 1) :
                          trace' = [trace EXCEPT ![p].originalContent = file,
                                                 ![p].newContent = newContent,
                                                 ![p].suggestions = suggestions]
                     /\ pc' = [pc EXCEPT ![p] = "done"]
                     /\ res' = [res EXCEPT ![p] = editResult("not_found")]
                ELSE /\ trace' = [trace EXCEPT ![p].originalContent = file,
                                               ![p].newContent = newContent]
                     /\ pc' = [pc EXCEPT ![p] = "write"]
                     /\ UNCHANGED res
    /\ UNCHANGED <<file, pre, prevRes>>

\* os.WriteFile of the edited content, and the return for a path that is
\* not a .go file
EditWrite(p) ==
    /\ pc[p] = "write"
    /\ \E env \in {"ok", "write_error"} :
        IF env = "write_error"
        THEN /\ pc' = [pc EXCEPT ![p] = "done"]
             /\ res' = [res EXCEPT ![p] = editResult("write_failed")]
             /\ UNCHANGED <<file, trace>>
        ELSE /\ file' = trace[p].newContent
             /\ trace' = [trace EXCEPT ![p].stamp = Writes + 1]
             /\ IF req[p].Ext # ".go"
                THEN /\ pc' = [pc EXCEPT ![p] = "done"]
                     /\ res' = [res EXCEPT ![p] = editResult("success")]
                ELSE /\ pc' = [pc EXCEPT ![p] = "check"]
                     /\ UNCHANGED res
    /\ UNCHANGED <<pre, req, prevRes>>

\* goCheck starts gopls: exec fails when gopls cannot be run or the context
\* is already cancelled, and the handler returns without reverting
EditCheckStart(p) ==
    /\ pc[p] = "check"
    /\ \E env \in {"ok", "exec_error"} :
        IF env = "exec_error" \/ trace[p].cancelledAt # ""
        THEN /\ pc' = [pc EXCEPT ![p] = "done"]
             /\ res' = [res EXCEPT ![p] = editResult("go_check_failed")]
        ELSE /\ pc' = [pc EXCEPT ![p] = "checking"]
             /\ UNCHANGED res
    /\ UNCHANGED <<file, pre, req, trace, prevRes>>

\* gopls ends: its output is the diagnostics for the content at the path; a
\* gopls killed by the cancellation ends with an ExitError, which goCheck
\* ignores, and with the output it had printed by then
EditCheckEnd(p) ==
    /\ pc[p] = "checking"
    /\ \E check \in {goCheck(file)} \cup
                    (IF trace[p].cancelledAt # "" THEN {<<>>} ELSE {}) :
        /\ trace' = [trace EXCEPT ![p].check = check]
        /\ pc' = [pc EXCEPT ![p] = IF check # <<>> THEN "revert" ELSE "format"]
    /\ UNCHANGED <<file, pre, req, res, prevRes>>

\* os.WriteFile of the original content after diagnostics
EditRevert(p) ==
    /\ pc[p] = "revert"
    /\ \E env \in {"ok", "write_error"} :
        IF env = "write_error"
        THEN /\ res' = [res EXCEPT ![p] = editResult("revert_failed")]
             /\ UNCHANGED <<file, trace>>
        ELSE /\ file' = trace[p].originalContent
             /\ trace' = [trace EXCEPT ![p].stamp = Writes + 1]
             /\ res' = [res EXCEPT ![p] = editResult("invalid_go")]
    /\ pc' = [pc EXCEPT ![p] = "done"]
    /\ UNCHANGED <<pre, req, prevRes>>

\* formatGoSource of the edited content and os.WriteFile of the result
EditCommit(p) ==
    /\ pc[p] = "format"
    /\ \E env \in {"ok", "imports_error", "write_error"} :
        IF env = "imports_error" \/ ~Parses(trace[p].newContent)
        THEN /\ res' = [res EXCEPT ![p] = editResult("formatting_failed")]
             /\ UNCHANGED <<file, trace>>
        ELSE IF env = "write_error"
        THEN /\ res' = [res EXCEPT ![p] = editResult("write_formatted_failed")]
             /\ UNCHANGED <<file, trace>>
        ELSE /\ file' = Format(trace[p].newContent)
             /\ trace' = [trace EXCEPT ![p].stamp = Writes + 1]
             /\ res' = [res EXCEPT ![p] = editResult("success")]
    /\ pc' = [pc EXCEPT ![p] = "done"]
    /\ UNCHANGED <<pre, req, prevRes>>

\* the caller cancels the context of an invocation that has not returned
EditCancel(p) ==
    /\ pc[p] \in InFlight
    /\ trace[p].cancelledAt = ""
    /\ trace' = [trace EXCEPT ![p].cancelledAt = pc[p]]
    /\ UNCHANGED <<file, pc, pre, req, res, prevRes>>

NextEdit ==
    \E p \in Procs :
        \/ EditStart(p)
        \/ EditWrite(p)
        \/ EditCheckStart(p)
        \/ EditCheckEnd(p)
        \/ EditRevert(p)
        \/ EditCommit(p)
        \/ EditCancel(p)

SpecEdit == InitEdit /\ [][NextEdit]_vars

\* invocation p ran alone: the other one never started
Alone(p) == \A q \in Procs \ {p} : pc[q] = "idle"

\* the failures of a write to the path itself
EditWriteKinds == {"write_failed", "revert_failed", "write_formatted_failed"}

\* what a successful invocation commits
Committed(p) ==
    IF req[p].Ext = ".go" THEN Format(trace[p].newContent) ELSE trace[p].newContent

\* the invocations that returned success, and the one of them that wrote last
Succeeded == {p \in Procs : res[p].kind = "success"}
LastWriter(S) == CHOOSE p \in S : \A q \in S : trace[p].stamp >= trace[q].stamp

(* C12: write-then-revert is equivalent to no-write-until-valid.  For      *)
(* every invocation of the write-then-revert edit_code on an existing      *)
(* file, run on its own, that ends with an error result the file holds its *)
(* pre-call content, and for every one that ends with success it holds the *)
(* formatted edited content (read for runs in which no write to the path   *)
(* fails and the caller does not cancel).                                  *)
C12_RevertEquivalent ==
    \A p \in Procs :
        (pc[p] = "done" /\ Alone(p) /\ pre # NoFile
            /\ res[p].kind \notin EditWriteKinds
            /\ trace[p].cancelledAt = "") =>
            /\ res[p].IsError => file = pre
            /\ ~res[p].IsError => file = Committed(p)

(* C13: last writer wins.  When two invocations on one path have both      *)
(* finished, whatever the interleaving of their steps, the file holds the  *)
(* initial content if neither succeeded and otherwise the committed        *)
(* content of the successful invocation that wrote last (read for runs in  *)
(* which nothing fails in the environment and nothing is cancelled: every  *)
(* invocation ends with success, with diagnostics or with old_string not   *)
(* found).                                                                 *)
C13_LastWriterWins ==
    (/\ \A p \in Procs : pc[p] = "done"
     /\ \A p \in Procs : res[p].kind \in {"success", "invalid_go", "not_found"}
     /\ \A p \in Procs : trace[p].cancelledAt = "") =>
        IF Succeeded = {} THEN file = pre
        ELSE file = Committed(LastWriter(Succeeded))

(* C14: cancellation without writing.  When the caller's cancellation      *)
(* fires while an invocation, run on its own, is in the gopls call, the    *)
(* invocation returns a cancellation failure, never success, and the file  *)
(* holds its pre-call content.                                             *)
C14_CancellationWithoutWriting ==
    \A p \in Procs :
        (pc[p] = "done" /\ Alone(p) /\ trace[p].cancelledAt = "checking") =>
            /\ res[p].IsError
            /\ res[p].kind = "cancelled"
            /\ file = pre

\* the content invocation p read from the path
WasRead(p) == pc[p] # "idle" /\ res[p].kind \notin {"not_exist", "read_failed"}

\* no edit of invocation p has an old_string that occurs in the file it read
NoneOccurs(p) ==
    \A k \in 1..Len(req[p].Edits) :
        ~Contains(trace[p].originalContent, req[p].Edits[k].OldString)

\* s is, edit by edit from edit k on, at most 3 suggestions, each a line of
\* the file that holds the bytes of the edit's old_string in their order,
\* with its 1-based number, no line twice for one edit
RECURSIVE SuggestionsPerEdit(_, _, _, _)
SuggestionsPerEdit(s, lines, edits, k) ==
    IF k > Len(edits) THEN s = <<>>
    ELSE \E n \in 0..(IF Len(s) < 3 THEN Len(s) ELSE 3) :
            /\ \A i \in 1..n :
                  /\ s[i].line \in 1..Len(lines)
                  /\ s[i].text = lines[s[i].line]
                  /\ SubsequenceFrom(edits[k].OldString, s[i].text, 1, 1)
                  /\ \A j \in 1..n : i # j => s[i].line # s[j].line
            /\ SuggestionsPerEdit(SubSeq(s, n + 1, Len(s)), lines, edits, k + 1)

(* C21: not-found feedback of the multi-edit edit_code.  When none of the  *)
(* edits' old_string occurs in the file, the invocation returns the error  *)
(* "old_string not found in file. No changes were made.", lists at most 3  *)
(* fuzzy suggestions per edit, each a line with its 1-based number, and    *)
(* leaves the file unchanged: it writes nothing, and run on its own the    *)
(* file holds its pre-call content.                                        *)
C21_NotFoundFeedback ==
    \A p \in Procs :
        (pc[p] = "done" /\ WasRead(p) /\ NoneOccurs(p)) =>
            /\ res[p].IsError
            /\ res[p].kind = "not_found"
            /\ SuggestionsPerEdit(trace[p].suggestions,
                                  Split(trace[p].originalContent), req[p].Edits, 1)
            /\ trace[p].stamp = 0
            /\ Alone(p) => file = pre

\* four lines "a b" and two edits with old_string "ab": lines 1 to 3, twice
C21_Witness ==
    /\ pc[1] = "done"
    /\ Alone(1)
    /\ pre = FourLines
    /\ Len(req[1].Edits) = 2
    /\ NoneOccurs(1)
    /\ res[1].kind = "not_found"
    /\ [i \in 1..6 |-> trace[1].suggestions[i].line] = <<1, 2, 3, 1, 2, 3>>
    /\ trace[1].suggestions[1].text = <<"a", SP, "b">>
    /\ file = pre

\* edit k of invocation p finds its old_string in the content it is applied
\* to: the file as the edits before it left it
FindsOldString(p, k) ==
    Contains(ApplyEdits(trace[p].originalContent, SubSeq(req[p].Edits, 1, k - 1), 1),
             req[p].Edits[k].OldString)

(* C30: "old_string not found in file" is returned only when no edit's     *)
(* old_string occurs in the content it is applied to.  The edits are       *)
(* applied in list order, each replacing the first occurrence in the       *)
(* result of the edits before it, and whenever at least one edit finds its *)
(* old_string the invocation goes on to write the edited content instead   *)
(* of returning the not-found error.                                       *)
C30_NotFoundOnlyWhenNoneFound ==
    \A p \in Procs :
        (pc[p] # "idle" /\ WasRead(p)) =>
            /\ trace[p].newContent = ApplyEdits(trace[p].originalContent, req[p].Edits, 1)
            /\ res[p].kind = "not_found" =>
                  \A k \in 1..Len(req[p].Edits) : ~FindsOldString(p, k)
            /\ (\E k \in 1..Len(req[p].Edits) : FindsOldString(p, k)) =>
                  /\ res[p].kind # "not_found"
                  /\ pc[p] = "done" => (trace[p].stamp > 0 \/ res[p].kind = "write_failed")

-----------------------------------------------------------------------------
(* The matcher of godoc.go again: the threshold it is run with and the     *)
(* windows it accepts, under Spec.                                         *)

(* C15: default threshold.  When the request leaves the threshold out the  *)
(* matcher is run with threshold 0.85; a threshold the caller gives in     *)
(* (0, 1] is used as given.                                                *)
C15_DefaultThreshold ==
    (Done /\ trace.matcher # "none") =>
        trace.threshold = IF req.Threshold = 0 THEN 85 ELSE req.Threshold

\* the windows of content, by their first line (0-based), whose lines equal
\* the lines of context once both are trimmed
TrimmedEqualWindows(content, context) ==
    LET contentLines == Split(content)
        contextLines == Split(context)
    IN  {i \in 0..(Len(contentLines) - Len(contextLines)) :
            \A j \in 1..Len(contextLines) :
                TrimSpace(contentLines[i + j]) = TrimSpace(contextLines[j])}

\* content with the n lines from line i (0-based) on replaced by new: the
\* lines before them with their terminators, new, the lines after them
ReplaceWindow(content, i, n, new) ==
    LET lines == Split(content) IN
    (IF i = 0 THEN <<>> ELSE Join(SubSeq(lines, 1, i)) \o <<NL>>)
        \o new \o Join(SubSeq(lines, i + n + 1, Len(lines)))

\* single_match reached the matcher with a search context that does not
\* occur verbatim and equals exactly one window up to the whitespace around
\* its lines
WhitespaceCase ==
    /\ Done
    /\ req.Strategy = "single_match"
    /\ trace.matcher # "none"
    /\ ~Contains(pre, req.SearchContext)
    /\ Cardinality(TrimmedEqualWindows(pre, req.SearchContext)) = 1

TheWindow == CHOOSE i \in TrimmedEqualWindows(pre, req.SearchContext) : TRUE

\* the window is among the candidates, with score 1
WindowAccepted ==
    \E k \in 1..Len(trace.candidates) :
        /\ trace.candidates[k].StartLine = TheWindow + 1
        /\ trace.candidates[k].Score[1] = trace.candidates[k].Score[2]

\* the invocation replaced the window and succeeded
WindowReplaced ==
    LET t == ReplaceWindow(pre, TheWindow, Len(Split(req.SearchContext)),
                           req.NewContent)
    IN  /\ res.kind = "success"
        /\ trace.transformed = t
        /\ file = Format(t)

WindowValid ==
    /\ res.kind \notin EnvKinds
    /\ Parses(ReplaceWindow(pre, TheWindow, Len(Split(req.SearchContext)),
                            req.NewContent))

C23_ValidatorSequencing ==
    (Done /\ trace.transformed # None) =>
        /\ trace.formatted = None =>
              /\ res.kind = IF Parses(trace.transformed) THEN "goimports_failed"
                                                          ELSE "syntax_pre"
              /\ ~trace.wrote
        /\ trace.formatted # None =>
              /\ Parses(trace.transformed)
              /\ trace.formatted = Format(trace.transformed)
              /\ res.kind = "syntax_post" <=> ~Parses(trace.formatted)
              /\ trace.wrote <=> Parses(trace.formatted) /\ res.kind # "mkdir_failed"
        /\ res.kind \in ValidationKinds => ~trace.wrote /\ file = pre
        /\ res.kind = "success" =>
              /\ Parses(trace.transformed)
              /\ Parses(trace.formatted)
              /\ file = trace.formatted

\* "a\na" replaced as a whole by "b": the file holds "b\n", not "b"
C23_Witness ==
    /\ Done
    /\ pre = <<"a", NL, "a">>
    /\ req.SearchContext = <<"a", NL, "a">>
    /\ req.NewContent = <<"b">>
    /\ res.kind = "success"
    /\ trace.transformed = <<"b">>
    /\ trace.formatted = <<"b", NL>>
    /\ file = <<"b", NL>>

\* score of m1 >= score of m2, for scores num/den
ScoreGeq(m1, m2) == m1.Score[1] * m2.Score[2] >= m2.Score[1] * m1.Score[2]

\* m1 comes before m2 in descending score order, ties by ascending start
Before(m1, m2) ==
    \/ ~ScoreGeq(m2, m1)
    \/ ScoreGeq(m1, m2) /\ ScoreGeq(m2, m1) /\ m1.StartIndex < m2.StartIndex

\* the windows that reach the threshold
ScoredWindows == FuzzyMatches(pre, req.SearchContext, trace.threshold)

(* C24: non-maximal suppression.  The candidates are taken in descending   *)
(* score order, ties by ascending start offset; each one not yet           *)
(* suppressed is accepted and suppresses every remaining candidate whose   *)
(* byte range overlaps it.  The candidates that survive do not overlap     *)
(* pairwise, and every suppressed one overlaps an accepted one with a      *)
(* score at least as high (read for a search context without blank lines   *)
(* and a threshold of 1).                                                  *)
C24_NonMaximalSuppression ==
    (Done /\ trace.matcher = "fuzzy" /\ req.Threshold = 100
          /\ \A j \in 1..Len(Split(req.SearchContext)) :
                TrimSpace(Split(req.SearchContext)[j]) # <<>>) =>
        LET survivors == trace.candidates IN
        /\ \A i, j \in 1..Len(survivors) :
              i < j => /\ ~Overlap(survivors[i], survivors[j])
                       /\ Before(survivors[i], survivors[j])
        /\ \A k \in 1..Len(ScoredWindows) :
              \/ \E i \in 1..Len(survivors) : survivors[i] = ScoredWindows[k]
              \/ \E i \in 1..Len(survivors) :
                    /\ Overlap(survivors[i], ScoredWindows[k])
                    /\ ScoreGeq(survivors[i], ScoredWindows[k])

\* the similarity of a line of the document to a line of the pattern: 1
\* when, both trimmed, the first equals or contains the second, 0 otherwise
LineSimilarity(lineContent, lineContext) ==
    IF Contains(TrimSpace(lineContent), TrimSpace(lineContext)) THEN 1 ELSE 0

\* the sum of the similarities of the first n lines of the pattern to the
\* lines of the window that starts at line i (0-based)
RECURSIVE SimilaritySum(_, _, _, _)
SimilaritySum(contentLines, contextLines, i, n) ==
    IF n = 0 THEN 0
    ELSE SimilaritySum(contentLines, contextLines, i, n - 1)
            + LineSimilarity(contentLines[i + n], contextLines[n])

\* the windows, by their first line (0-based), whose average similarity is
\* at least the threshold (in hundredths)
WindowsAtLeast(content, context, threshold) ==
    LET contentLines == Split(content)
        contextLines == Split(context)
        n == Len(contextLines)
    IN  {i \in 0..(Len(contentLines) - n) :
            SimilaritySum(contentLines, contextLines, i, n) * 100 >= threshold * n}

\* the bytes of the n lines from line i (0-based) on, with the terminator of
\* the last of them when a line follows
WindowText(content, i, n) ==
    LET lines == Split(content) IN
    Join(SubSeq(lines, i + 1, i + n))
        \o (IF i + n < Len(lines) THEN <<NL>> ELSE <<>>)

(* C25: the threshold filter is exact.  In the fuzzy path the matcher      *)
(* returns precisely the line windows, each as long as the pattern's line  *)
(* count, whose score, the average of the similarities of their lines, is  *)
(* at least the threshold: none below it is returned and none at or above  *)
(* it is left out.                                                         *)
C25_ThresholdFilterExact ==
    (Done /\ trace.matcher = "fuzzy") =>
        LET n == Len(Split(req.SearchContext))
            kept == WindowsAtLeast(pre, req.SearchContext, trace.threshold)
        IN  /\ {trace.candidates[k].StartLine - 1 : k \in 1..Len(trace.candidates)} = kept
            /\ Len(trace.candidates) = Cardinality(kept)
            /\ \A k \in 1..Len(trace.candidates) :
                  LET m == trace.candidates[k] IN
                  /\ m.Score = <<SimilaritySum(Split(pre), Split(req.SearchContext),
                                               m.StartLine - 1, n), n>>
                  /\ m.Score[1] * 100 >= trace.threshold * m.Score[2]
                  /\ Slice(pre, m.StartIndex, m.EndIndex)
                        = WindowText(pre, m.StartLine - 1, n)

\* "a\n\n a" with search context "a\na" and threshold 0.5: the windows at
\* lines 1 and 2 score exactly 0.5 and are returned
C25_Witness ==
    /\ Done
    /\ trace.matcher = "fuzzy"
    /\ pre = <<"a", NL, NL, SP, "a">>
    /\ req.SearchContext = <<"a", NL, "a">>
    /\ req.Threshold = 50
    /\ Len(trace.candidates) = 2
    /\ trace.candidates[1].Score = <<1, 2>>
    /\ trace.candidates[2].Score = <<1, 2>>

(* C26: a pattern longer than the document.  When the search context has   *)
(* more lines than the document the matcher returns no candidate and does  *)
(* not fault, the invocation fails with NoMatch and the file is unchanged  *)
(* (the file being one that can be read).                                  *)
C26_PatternLongerThanDocument ==
    (Done /\ IsReplace /\ ~NotExist(pre) /\ res.kind # "read_failed"
          /\ Len(Split(req.SearchContext)) > Len(Split(pre))) =>
        /\ ~Contains(pre, req.SearchContext)
        /\ trace.matcher = "fuzzy"
        /\ trace.candidates = <<>>
        /\ res.IsError
        /\ res.kind = "no_match"
        /\ trace.transformed = None
        /\ file = pre

\* the one-line document "a" and the two-line search context "a\na"
C26_Witness ==
    /\ Done
    /\ pre = <<"a">>
    /\ req.SearchContext = <<"a", NL, "a">>
    /\ req.Strategy = "replace_all"
    /\ req.Threshold = 50
    /\ res.kind = "no_match"
    /\ file = pre

(* C27: newline preservation on fuzzy replacement.  When a line-window     *)
(* candidate is replaced under single_match or replace_all the line        *)
(* terminator between the window and the line after it is kept: the lines  *)
(* before the window and the lines after it are lines of the resulting     *)
(* content, unchanged, with the lines of the new content between them      *)
(* (read for a new content that is not empty and a window followed by a    *)
(* line that is not blank).                                                *)
C27_NewlinePreserved ==
    (Done /\ IsReplace /\ trace.matcher = "fuzzy" /\ trace.transformed # None
          /\ req.NewContent # <<>>) =>
        LET lines == Split(pre)
            i == trace.candidates[1].StartLine - 1
            n == Len(Split(req.SearchContext))
        IN  (i + n < Len(lines) /\ TrimSpace(lines[i + n + 1]) # <<>>) =>
                Split(trace.transformed)
                    = SubSeq(lines, 1, i) \o Split(req.NewContent)
                        \o SubSeq(lines, i + n + 1, Len(lines))

\* a line of content begins at offset o
BeginsLine(content, o) == o = 0 \/ (o <= Len(content) /\ content[o] = NL)

\* the offsets of candidate m lie in the content, in order
InRange(content, m) ==
    /\ 0 <= m.StartIndex
    /\ m.StartIndex <= m.EndIndex
    /\ m.EndIndex <= Len(content)

(* C28, as stated: candidate offsets are always in range.  Every candidate *)
(* the matcher returns has 0 <= startOffset <= endOffset <= len(content),  *)
(* and its startLine is the 1-based number of the line that begins at      *)
(* startOffset; this holds for a window ending at the last line of a       *)
(* document without a trailing terminator too (read for a search context   *)
(* that is not blank).                                                     *)
C28_OffsetsInRange ==
    (Done /\ trace.matcher # "none" /\ TrimSpace(req.SearchContext) # <<>>) =>
        \A k \in 1..Len(trace.candidates) :
            LET m == trace.candidates[k] IN
            /\ InRange(pre, m)
            /\ BeginsLine(pre, m.StartIndex)
            /\ m.StartLine = LineOf(pre, m.StartIndex)

(* C28, amended: every candidate has 0 <= startOffset <= endOffset <=      *)
(* len(content) and its startLine is the 1-based number of the line that   *)
(* holds startOffset; a line-window candidate starts where that line       *)
(* begins, a verbatim occurrence anywhere in it.  A window ending at the   *)
(* last line of a document ends at len(content), and the splice of the     *)
(* first candidate stays within the content.                               *)
C28_OffsetsInRangeOfLine ==
    (Done /\ trace.matcher # "none") =>
        /\ \A k \in 1..Len(trace.candidates) :
              LET m == trace.candidates[k] IN
              /\ InRange(pre, m)
              /\ m.StartLine = LineOf(pre, m.StartIndex)
              /\ trace.matcher = "fuzzy" =>
                    /\ BeginsLine(pre, m.StartIndex)
                    /\ (m.StartLine - 1 + Len(Split(req.SearchContext)) = Len(Split(pre)))
                          => m.EndIndex = Len(pre)
        /\ trace.transformed # None =>
              Len(trace.transformed) =
                  Len(pre) + Len(req.NewContent)
                      - (trace.candidates[1].EndIndex - trace.candidates[1].StartIndex)

\* "\na" with search context " a": the window at line 2 ends the document,
\* which has no trailing terminator
C28_Witness ==
    /\ Done
    /\ trace.matcher = "fuzzy"
    /\ pre = <<NL, "a">>
    /\ req.SearchContext = <<SP, "a">>
    /\ req.NewContent = <<"b">>
    /\ trace.candidates =
          << [StartIndex |-> 1, EndIndex |-> 2, StartLine |-> 2, Score |-> <<1, 1>>] >>
    /\ trace.transformed = <<NL, "b">>
    /\ res.kind = "success"

-----------------------------------------------------------------------------
(* The scalpel tool of src/internal/tool/scalpel/scalpel.go (first package *)
(* of the file): Execute and positionToOffset.  In the behaviours of       *)
(* SpecScalpel req holds the ScalpelParams of the invocation, res what     *)
(* Execute returned and trace the offsets it resolved.                     *)

\* a Position; 0 is the zero value of a field the request leaves out
Pos(line, column, offset) == [Line |-> line, Column |-> column, Offset |-> offset]

resolved(offset) == [err |-> "", offset |-> offset]
unresolved(kind) == [err |-> kind, offset |-> 0]

\* the offset of the first byte of line lineNo (1-based): the loop of
\* positionToOffset
LineStart(lines, lineNo) ==
    LET F[i \in 0..(lineNo - 1)] ==
            IF i = 0 THEN 0 ELSE F[i - 1] + Len(lines[i]) + 1
    IN  F[lineNo - 1]

\* positionToOffset with lines that carry no terminator
positionToOffset_NoTerminator(content, pos) ==
    IF pos.Offset # 0
    THEN IF pos.Offset < 0 \/ pos.Offset > Len(content)
         THEN unresolved("offset_out_of_bounds")
         ELSE resolved(pos.Offset)
    ELSE IF pos.Line = 0 \/ pos.Column = 0
    THEN unresolved("position_required")
    ELSE LET lines == Split(content) IN
         IF pos.Line > Len(lines) THEN unresolved("line_out_of_bounds")
         ELSE IF pos.Line < 1 THEN unresolved("panic")
         ELSE IF pos.Column - 1 > Len(lines[pos.Line])
         THEN unresolved("column_out_of_bounds")
         ELSE resolved(LineStart(lines, pos.Line) - (pos.Line - 1) + pos.Column - 1)

\* positionToOffset; indexing lines with a negative line number panics
positionToOffset(content, pos) ==
    IF pos.Offset # 0
    THEN IF pos.Offset < 0 \/ pos.Offset > Len(content)
         THEN unresolved("offset_out_of_bounds")
         ELSE resolved(pos.Offset)
    ELSE IF pos.Line = 0 \/ pos.Column = 0
    THEN unresolved("position_required")
    ELSE LET lines == Split(content) IN
         IF pos.Line > Len(lines) THEN unresolved("line_out_of_bounds")
         ELSE IF pos.Line < 1 THEN unresolved("panic")
         ELSE IF pos.Column - 1 > Len(lines[pos.Line])
         THEN unresolved("column_out_of_bounds")
         ELSE resolved(LineStart(lines, pos.Line) + pos.Column - 1)

\* formatWithLineNumbers: the numbered lines, a final empty line left out
formatWithLineNumbers(content) ==
    LET lines == Split(content)
        F[i \in 0..Len(lines)] ==
            IF i = 0 THEN <<>>
            ELSE IF i = Len(lines) /\ Len(lines[i]) = 0 THEN F[i - 1]
            ELSE Append(F[i - 1], [n |-> i, text |-> lines[i]])
    IN  F[Len(lines)]

\* regexp.Compile succeeds: "(" stands for a pattern that is not a regular
\* expression, the other patterns are literals
LParen == "("
Compiles(pattern) == \A i \in 1..Len(pattern) : pattern[i] # LParen

\* re.FindAllSubmatchIndex for a literal pattern, with the matched text
FindAll(content, pattern) ==
    [k \in 1..Len(Occurrences(content, pattern)) |->
        [Start |-> Occurrences(content, pattern)[k],
         End |-> Occurrences(content, pattern)[k] + Len(pattern),
         Groups |-> <<pattern>>]]

\* re.ReplaceAll for a literal pattern and a literal replacement
RegexReplaceAll(content, pattern, replacement) ==
    ReplaceSpans(content, OccurrenceSpans(content, pattern), replacement, 1)

\* what the switch of Execute computes: an error, or the new content (None
\* for an operation that does not write) and the text returned
opError(kind, start, end) ==
    [err |-> kind, newContent |-> None, out |-> <<>>, start |-> start, end |-> end]
opResult(newContent, out, start, end) ==
    [err |-> "", newContent |-> newContent, out |-> out, start |-> start, end |-> end]

\* the range operations: both positions are resolved and compared, then
\* the content is cut at the offsets; a negative offset panics at the slice
RangeOp(originalContent, params, missing) ==
    IF params.Start = <<>> \/ params.End = <<>> THEN opError(missing, <<>>, <<>>)
    ELSE
    LET s == positionToOffset(originalContent, params.Start[1]) IN
    IF s.err # "" THEN opError(s.err, <<>>, <<>>)
    ELSE
    LET e == positionToOffset(originalContent, params.End[1]) IN
    IF e.err # "" THEN opError(e.err, <<s.offset>>, <<>>)
    ELSE IF s.offset > e.offset THEN opError("invalid_range", <<s.offset>>, <<e.offset>>)
    ELSE IF s.offset < 0 THEN opError("panic", <<s.offset>>, <<e.offset>>)
    ELSE IF params.Operation = "read"
    THEN opResult(None,
                  formatWithLineNumbers(Slice(originalContent, s.offset, e.offset)),
                  <<s.offset>>, <<e.offset>>)
    ELSE opResult(Slice(originalContent, 0, s.offset)
                      \o (IF params.Operation = "replace" THEN params.Content ELSE <<>>)
                      \o Slice(originalContent, e.offset, Len(originalContent)),
                  <<>>, <<s.offset>>, <<e.offset>>)

ExecuteOp(originalContent, params) ==
    CASE params.Operation = "insert" ->
            IF params.Start = <<>> THEN opError("start_required", <<>>, <<>>)
            ELSE LET o == positionToOffset(originalContent, params.Start[1]) IN
                 IF o.err # "" THEN opError(o.err, <<>>, <<>>)
                 ELSE IF o.offset < 0 THEN opError("panic", <<o.offset>>, <<>>)
                 ELSE opResult(Slice(originalContent, 0, o.offset) \o params.Content
                                   \o Slice(originalContent, o.offset, Len(originalContent)),
                               <<>>, <<o.offset>>, <<>>)
      [] params.Operation = "delete" ->
            RangeOp(originalContent, params, "start_end_required")
      [] params.Operation = "replace" ->
            RangeOp(originalContent, params, "start_end_required")
      [] params.Operation = "replaceAll" ->
            IF params.Pattern = <<>> \/ params.Replacement = <<>>
            THEN opError("pattern_replacement_required", <<>>, <<>>)
            ELSE IF ~Compiles(params.Pattern) THEN opError("invalid_pattern", <<>>, <<>>)
            ELSE opResult(RegexReplaceAll(originalContent, params.Pattern,
                                          params.Replacement), <<>>, <<>>, <<>>)
      [] params.Operation = "search" ->
            IF params.Pattern = <<>> THEN opError("pattern_required", <<>>, <<>>)
            ELSE IF ~Compiles(params.Pattern) THEN opError("invalid_pattern", <<>>, <<>>)
            ELSE opResult(None, FindAll(originalContent, params.Pattern), <<>>, <<>>)
      [] params.Operation = "read" ->
            IF params.Start = <<>> /\ params.End = <<>>
            THEN opResult(None, formatWithLineNumbers(originalContent), <<>>, <<>>)
            ELSE RangeOp(originalContent, params, "read_start_end_required")
      [] OTHER -> opError("unknown_operation", <<>>, <<>>)

scalpelResult(err, out) == [err |-> err, out |-> out]

\* the offsets resolved for start and end: <<>> until resolved, then <<offset>>
NoOffsets == [start |-> <<>>, end |-> <<>>]

\* Execute with the file written before the outcome of the operation is
\* looked at
Execute_WriteFirst(f, params, env) ==
    IF params.FilePath = ""
    THEN [file |-> f, res |-> scalpelResult("file_path_required", <<>>),
          trace |-> NoOffsets]
    ELSE IF f = NoFile
    THEN [file |-> f, res |-> scalpelResult("read_failed", <<>>), trace |-> NoOffsets]
    ELSE
    LET r == ExecuteOp(f, params)
        tr == [start |-> r.start, end |-> r.end]
    IN  IF r.newContent = None
        THEN [file |-> <<>>, res |-> scalpelResult(r.err, r.out), trace |-> tr]
        ELSE [file |-> r.newContent,
              res |-> scalpelResult("", formatWithLineNumbers(r.newContent)),
              trace |-> tr]

\* Execute: f is the content of the path, NoFile when it cannot be read;
\* env names the failure of os.WriteFile, if any
Execute(f, params, env) ==
    IF params.FilePath = ""
    THEN [file |-> f, res |-> scalpelResult("file_path_required", <<>>),
          trace |-> NoOffsets]
    ELSE IF f = NoFile
    THEN [file |-> f, res |-> scalpelResult("read_failed", <<>>), trace |-> NoOffsets]
    ELSE
    LET r == ExecuteOp(f, params)
        tr == [start |-> r.start, end |-> r.end]
    IN  IF r.err # ""
        THEN [file |-> f, res |-> scalpelResult(r.err, <<>>), trace |-> tr]
        ELSE IF r.newContent = None
        THEN [file |-> f, res |-> scalpelResult("", r.out), trace |-> tr]
        ELSE IF env = "write_open_error"
        THEN [file |-> f, res |-> scalpelResult("write_failed", <<>>), trace |-> tr]
        ELSE IF env = "write_short_error"
        THEN [file |-> <<>>, res |-> scalpelResult("write_failed", <<>>), trace |-> tr]
        ELSE [file |-> r.newContent,
              res |-> scalpelResult("", formatWithLineNumbers(r.newContent)),
              trace |-> tr]

\* the largest line, column and offset a request names
MaxLine == 3
MaxColumn == 3
MaxOffset == 4

ScalpelDocs == { NoFile, <<>>, <<"a", "b">>, <<"a", NL, "b">>, <<"a", NL>> }

Positions ==
    { Pos(l, c, 0) : l \in -1..MaxLine, c \in -1..MaxColumn }
        \cup { Pos(0, 0, o) : o \in -1..MaxOffset }
        \cup { Pos(2, 1, 1) }

\* a *Position: nil, or a pointer to a Position
PosArgs == { <<>> } \cup { <<pos>> : pos \in Positions }

ScalpelContents == { <<>>, <<"c">> }
Patterns == { <<>>, <<"a">>, <<LParen>> }
Replacements == { <<>>, <<"c">> }

ScalpelParams(op, starts, ends, contents, patterns, replacements) ==
    [FilePath : {"f"}, Operation : {op}, Start : starts, End : ends,
     Content : contents, Pattern : patterns, Replacement : replacements]

ScalpelRequests ==
    ScalpelParams("insert", PosArgs, {<<>>}, ScalpelContents, {<<>>}, {<<>>})
    \cup ScalpelParams("delete", PosArgs, PosArgs, {<<>>}, {<<>>}, {<<>>})
    \cup ScalpelParams("replace", PosArgs, PosArgs, ScalpelContents, {<<>>}, {<<>>})
    \cup ScalpelParams("read", PosArgs, PosArgs, {<<>>}, {<<>>}, {<<>>})
    \cup ScalpelParams("replaceAll", {<<>>}, {<<>>}, {<<>>}, Patterns, Replacements)
    \cup ScalpelParams("search", {<<>>}, {<<>>}, {<<>>}, Patterns, {<<>>})
    \cup ScalpelParams("move", {<<>>}, {<<>>}, {<<>>}, {<<>>}, {<<>>})
    \cup { [FilePath |-> "", Operation |-> "read", Start |-> <<>>, End |-> <<>>,
            Content |-> <<>>, Pattern |-> <<>>, Replacement |-> <<>>] }

\* the failures of os.WriteFile, for the requests that reach it
ScalpelFaults(f, params) ==
    IF Execute(f, params, "ok").res.err = ""
          /\ params.Operation \notin {"read", "search"}
    THEN {"ok", "write_open_error", "write_short_error"}
    ELSE {"ok"}

InitScalpel ==
    /\ file \in ScalpelDocs
    /\ pc = "idle"
    /\ pre = file
    /\ req = NoReq
    /\ res = NoRes
    /\ trace = NoOffsets
    /\ prevRes = NoRes

\* a caller invokes scalpel and Execute runs to its return
ScalpelInvoke ==
    /\ pc = "idle"
    /\ \E params \in ScalpelRequests : \E env \in ScalpelFaults(file, params) :
        LET out == Execute(file, params, env) IN
        /\ file' = out.file
        /\ req' = params
        /\ res' = out.res
        /\ trace' = out.trace
    /\ pc' = "done"
    /\ UNCHANGED <<pre, prevRes>>

NextScalpel == ScalpelInvoke

SpecScalpel == InitScalpel /\ [][NextScalpel]_vars

\* a Position that names an offset only
OffsetOnly(pos) == pos.Line = 0 /\ pos.Column = 0

(* C17: a Position by offset.  A Position given only by offset resolves to *)
(* that zero-based byte offset for every offset from 0, the start of the   *)
(* file, to the length of the file; an offset greater than the length is   *)
(* rejected with an error (on insert, the write not failing).              *)
C17_PositionByOffset ==
    (Done /\ req.Operation = "insert" /\ req.FilePath # "" /\ pre # NoFile
          /\ Len(pre) > 0
          /\ req.Start # <<>> /\ OffsetOnly(req.Start[1])
          /\ req.Start[1].Offset >= 0 /\ res.err # "write_failed") =>
        LET o == req.Start[1].Offset IN
        IF o <= Len(pre)
        THEN /\ res.err = ""
             /\ trace.start = <<o>>
             /\ file = Slice(pre, 0, o) \o req.Content \o Slice(pre, o, Len(pre))
        ELSE /\ res.err = "offset_out_of_bounds"
             /\ file = pre

(* C18: scalpel writes only on a successful mutating operation.  Whenever  *)
(* Execute returns one of its errors (empty file_path, unreadable file,    *)
(* unknown operation, missing start or end, line, column or offset out of  *)
(* bounds, start after end, missing or invalid pattern), and for every     *)
(* read and search, the file is byte for byte what it was before the call. *)
C18_WritesOnlyOnSuccess ==
    Done =>
        /\ res.err \notin {"", "write_failed"} => file = pre
        /\ req.Operation \in {"read", "search"} => file = pre
        /\ file # pre =>
              /\ req.Operation \in {"insert", "delete", "replace", "replaceAll"}
              /\ trace.start # <<>> \/ req.Operation = "replaceAll"

C18_Witness ==
    /\ Done
    /\ pre = <<"a", NL, "b">>
    /\ req.Operation = "replace"
    /\ req.Content = <<"c">>
    /\ req.Start = << Pos(2, 1, 0) >>
    /\ req.End = << Pos(0, 0, 1) >>
    /\ res.err = "invalid_range"
    /\ file = pre

\* o is the offset of line and column (both 1-based) of content: column - 1
\* bytes after the start of a line that has line - 1 line terminators before it
AtLineColumn(content, o, line, column) ==
    LET ls == o - (column - 1) IN
    /\ 0 <= ls /\ o <= Len(content)
    /\ ls = 0 \/ content[ls] = NL
    /\ \A i \in (ls + 1)..o : content[i] # NL
    /\ CountNL(Slice(content, 0, ls)) = line - 1

\* o is the offset pos names in content
PositionAt(content, pos, o) ==
    IF pos.Offset # 0 THEN o = pos.Offset
    ELSE (pos.Line >= 1 /\ pos.Column >= 1) =>
            AtLineColumn(content, o, pos.Line, pos.Column)

(* C19: range semantics.  For replace with start and end resolving to      *)
(* offsets s <= e the file afterwards is original[:s] + content +          *)
(* original[e:]; delete gives what replace with empty content gives, and   *)
(* insert at s what replace with s = e gives; a 1-based line and column    *)
(* resolve to the offset of the byte at that line and column.              *)
C19_RangeSemantics ==
    (Done /\ res.err = "" /\ req.Operation \in {"insert", "delete", "replace"}) =>
        LET s == trace.start[1]
            e == IF req.Operation = "insert" THEN trace.start[1] ELSE trace.end[1]
            content == IF req.Operation = "delete" THEN <<>> ELSE req.Content
        IN  /\ 0 <= s /\ s <= e /\ e <= Len(pre)
            /\ file = Slice(pre, 0, s) \o content \o Slice(pre, e, Len(pre))
            /\ PositionAt(pre, req.Start[1], s)
            /\ req.Operation # "insert" => PositionAt(pre, req.End[1], e)
            /\ req.Operation = "delete" =>
                  file = Execute(pre, [req EXCEPT !.Operation = "replace",
                                                  !.Content = <<>>], "ok").file
            /\ req.Operation = "insert" =>
                  file = Execute(pre, [req EXCEPT !.Operation = "replace",
                                                  !.End = req.Start], "ok").file

\* "a\nb" with line 2, column 1 to line 2, column 2 replaced by "c"
C19_Witness ==
    /\ Done
    /\ pre = <<"a", NL, "b">>
    /\ req.Operation = "replace"
    /\ req.Start = << Pos(2, 1, 0) >>
    /\ req.End = << Pos(2, 2, 0) >>
    /\ req.Content = <<"c">>
    /\ res.err = ""
    /\ file = <<"a", NL, "c">>

(* C29: position resolution is total and bounded.  For every Position,     *)
(* whatever its line, column and offset, zero and negative values          *)
(* included, and every file content, positionToOffset returns an error or  *)
(* an offset from 0 to the length of the content; it never faults and      *)
(* Execute never slices outside the content.                               *)
C29_PositionTotalAndBounded ==
    (Done /\ pre # NoFile /\ Len(pre) > 0) =>
        /\ res.err # "panic"
        /\ \A o \in {trace.start, trace.end} :
              o # <<>> => 0 <= o[1] /\ o[1] <= Len(pre)
        /\ \A p \in {req.Start, req.End} :
              p # <<>> => LET r == positionToOffset(pre, p[1]) IN
                          /\ r.err # "panic"
                          /\ r.err = "" => 0 <= r.offset /\ r.offset <= Len(pre)

-----------------------------------------------------------------------------
(* The write_code tool of src/internal/tools/write_code/write_code.go:     *)
(* writeCodeHandler writes the content to the path, runs "gopls check" on  *)
(* it, and removes the file or formats and writes it again.  In the        *)
(* behaviours of SpecWrite req holds the WriteCodeParams, res the result   *)
(* and trace the output of the check.                                      *)

writeResult(kind) == [IsError |-> kind # "success", kind |-> kind]

NoCheck == [check |-> None]

\* the handler with the content that was at the path put back after
\* diagnostics
writeCodeHandler_Restore(f, args, env) ==
    IF args.Ext # ".go"
    THEN [file |-> args.Content, res |-> writeResult("success"), trace |-> NoCheck]
    ELSE IF goCheck(args.Content) # <<>>
    THEN [file |-> f, res |-> writeResult("invalid_go_deleted"),
          trace |-> [check |-> goCheck(args.Content)]]
    ELSE [file |-> Format(args.Content), res |-> writeResult("success"),
          trace |-> [check |-> <<>>]]

\* writeCodeHandler: f is the state of the path; env names the step the
\* environment makes fail, if any
writeCodeHandler(f, args, env) ==
    IF f = NoDir /\ env = "mkdir_error"
    THEN [file |-> f, res |-> writeResult("mkdir_failed"), trace |-> NoCheck]
    ELSE IF env = "write_error"
    THEN [file |-> IF f = NoDir THEN NoFile ELSE f,
          res |-> writeResult("write_failed"), trace |-> NoCheck]
    ELSE IF args.Ext # ".go"
    THEN [file |-> args.Content, res |-> writeResult("success"), trace |-> NoCheck]
    ELSE IF env = "exec_error"
    THEN [file |-> args.Content, res |-> writeResult("go_check_failed"),
          trace |-> NoCheck]
    ELSE
    LET check == goCheck(args.Content)
        tr == [check |-> check]
    IN  IF check # <<>>
        THEN IF env = "remove_error"
             THEN [file |-> args.Content, res |-> writeResult("remove_failed"),
                   trace |-> tr]
             ELSE [file |-> NoFile, res |-> writeResult("invalid_go_deleted"),
                   trace |-> tr]
        ELSE IF env = "imports_error"
        THEN [file |-> args.Content, res |-> writeResult("formatting_failed"),
              trace |-> tr]
        ELSE IF env = "write_formatted_error"
        THEN [file |-> args.Content, res |-> writeResult("write_formatted_failed"),
              trace |-> tr]
        ELSE [file |-> Format(args.Content), res |-> writeResult("success"),
              trace |-> tr]

WriteDocs == { NoDir, NoFile, <<>>, <<"a">>, <<"b", NL>> }

WriteRequests == [Ext : Exts, Content : NewContents]

\* the failures that can change the outcome of a request
WriteFaults(f, args) ==
    {"ok", "write_error"}
    \cup (IF f = NoDir THEN {"mkdir_error"} ELSE {})
    \cup (IF args.Ext # ".go" THEN {}
          ELSE {"exec_error"} \cup
               (IF goCheck(args.Content) # <<>> THEN {"remove_error"}
                ELSE {"imports_error", "write_formatted_error"}))

InitWrite ==
    /\ file \in WriteDocs
    /\ pc = "idle"
    /\ pre = file
    /\ req = NoReq
    /\ res = NoRes
    /\ trace = NoCheck
    /\ prevRes = NoRes

\* a caller invokes write_code and the handler runs to its return
WriteInvoke ==
    /\ pc = "idle"
    /\ \E args \in WriteRequests : \E env \in WriteFaults(file, args) :
        LET out == writeCodeHandler(file, args, env) IN
        /\ file' = out.file
        /\ req' = args
        /\ res' = out.res
        /\ trace' = out.trace
    /\ pc' = "done"
    /\ UNCHANGED <<pre, prevRes>>

NextWrite == WriteInvoke

SpecWrite == InitWrite /\ [][NextWrite]_vars

(* C20: write_code on invalid Go.  When the check reports diagnostics for  *)
(* the .go file just written, write_code returns the error saying the file *)
(* has been deleted and the path does not exist after the call, whether it *)
(* was absent or held earlier content before (the removal itself not       *)
(* failing).                                                               *)
C20_InvalidGoDeleted ==
    (Done /\ req.Ext = ".go" /\ trace.check # None /\ trace.check # <<>>
          /\ res.kind # "remove_failed") =>
        /\ res.IsError
        /\ res.kind = "invalid_go_deleted"
        /\ file = NoFile
        /\ ~Parses(req.Content)

\* the path held "b\n" and invalid content was written to it
C20_Witness ==
    /\ Done
    /\ pre = <<"b", NL>>
    /\ req.Ext = ".go"
    /\ req.Content = <<Bad>>
    /\ res.kind = "invalid_go_deleted"
    /\ file = NoFile

-----------------------------------------------------------------------------
(* editCodeHandler of godoc.go step by step.  In the behaviours of         *)
(* SpecStages pc is the stage the invocation has reached: "Start" once the *)
(* handler is entered, "Matched" after findMatches, "Resolved" after the   *)
(* checks on the number of candidates, "Transformed" once newContentStr is *)
(* built, "Validated" after imports.Process and parser.ParseFile,          *)
(* "Committed" at the return of the success result and "Failed" at the     *)
(* return of an error result.  trace holds the handler's local variables   *)
(* and the stages entered so far.                                          *)

Stages == <<"Start", "Matched", "Resolved", "Transformed", "Validated", "Committed">>
Terminal == {"Committed", "Failed"}

NoStageTrace ==
    [originalContent |-> None, candidates |-> <<>>, threshold |-> 0,
     transformed |-> None, formatted |-> None, stages |-> <<>>]

Enter(stage, tr) == [tr EXCEPT !.stages = Append(@, stage)]

\* the documents of one line and of two lines
StageDocs ==
    DocLines \cup { Join(<<l1, l2>>) : l1 \in DocLines, l2 \in DocLines }

StageContexts == { <<"a">>, <<SP, "a">>, <<"b">>, <<"a", NL, "a">> }

StageRequests ==
    [Strategy : {"single_match", "replace_all"}, SearchContext : StageContexts \cup {<<>>},
     NewContent : NewContents, Threshold : {0, 50}]
    \cup
    [Strategy : {"overwrite_file"}, SearchContext : {<<>>},
     NewContent : NewContents, Threshold : {0}]

\* the steps of validation with the candidate content written to the path
\* before it is checked
validate_WriteFirst(f, newContentStr, env) ==
    IF ~Parses(newContentStr)
    THEN [file |-> newContentStr, kind |-> "syntax_pre", formatted |-> None]
    ELSE [file |-> newContentStr, kind |-> "", formatted |-> Format(newContentStr)]

\* step 3, in memory: imports.Process, parser.ParseFile on the candidate
\* when it fails, parser.ParseFile on its output when it succeeds; the path
\* keeps the content f
validate(f, newContentStr, env) ==
    IF ~Parses(newContentStr)
    THEN [file |-> f, kind |-> "syntax_pre", formatted |-> None]
    ELSE IF env = "imports_error"
    THEN [file |-> f, kind |-> "goimports_failed", formatted |-> None]
    ELSE IF ~Parses(Format(newContentStr))
    THEN [file |-> f, kind |-> "syntax_post", formatted |-> Format(newContentStr)]
    ELSE [file |-> f, kind |-> "", formatted |-> Format(newContentStr)]

\* step 5: os.MkdirAll and os.WriteFile of the formatted bytes
commit(f, formattedBytes, env) ==
    IF env = "mkdir_error" THEN [file |-> f, kind |-> "mkdir_failed"]
    ELSE IF env = "write_open_error"
    THEN [file |-> IF f = NoDir THEN NoFile ELSE f, kind |-> "write_failed"]
    ELSE IF env = "write_short_error" THEN [file |-> <<>>, kind |-> "write_failed"]
    ELSE [file |-> formattedBytes, kind |-> ""]

InitStages ==
    /\ file \in StageDocs \cup {NoFile, NoDir}
    /\ pc = "idle"
    /\ pre = file
    /\ req = NoReq
    /\ res = NoRes
    /\ trace = NoStageTrace
    /\ prevRes = NoRes

\* the return of errorResult
Fail(kind, lines, tr) ==
    /\ pc' = "Failed"
    /\ res' = errorResult(kind, lines)
    /\ trace' = Enter("Failed", tr)

\* the move to the next stage
Advance(stage, tr) ==
    /\ pc' = stage
    /\ trace' = Enter(stage, tr)
    /\ UNCHANGED res

\* a caller invokes edit_code: the handler is entered
StageBegin ==
    /\ pc = "idle"
    /\ \E args \in StageRequests : req' = args
    /\ pc' = "Start"
    /\ trace' = Enter("Start", NoStageTrace)
    /\ UNCHANGED <<file, pre, res, prevRes>>

\* the defaults, os.ReadFile and, for the replace strategies, findMatches;
\* overwrite_file takes the new content as it is
StageMatch ==
    /\ pc = "Start"
    /\ \E env \in {"ok"} \cup (IF NotExist(file) THEN {} ELSE {"read_error"}) :
        LET Threshold == IF req.Threshold = 0 THEN DefaultThreshold ELSE req.Threshold
            originalContent == IF NotExist(file) THEN <<>> ELSE file
            tr == [trace EXCEPT !.originalContent = originalContent,
                                !.threshold = Threshold]
        IN
        IF (NotExist(file) /\ req.Strategy # "overwrite_file") \/ env = "read_error"
        THEN Fail("read_failed", <<>>, trace)
        ELSE IF req.Strategy = "overwrite_file"
        THEN Advance("Transformed", [tr EXCEPT !.transformed = req.NewContent])
        ELSE IF req.SearchContext = <<>>
        THEN Fail("search_context_required", <<>>, tr)
        ELSE Advance("Matched",
                     [tr EXCEPT !.candidates =
                         findMatches(originalContent, req.SearchContext, Threshold).matches])
    /\ UNCHANGED <<file, pre, req, prevRes>>

\* the checks on the number of candidates
StageResolve ==
    /\ pc = "Matched"
    /\ IF Len(trace.candidates) = 0
       THEN Fail("no_match", <<>>, trace)
       ELSE IF req.Strategy = "single_match" /\ Len(trace.candidates) > 1
       THEN Fail("ambiguous", StartLines(trace.candidates), trace)
       ELSE Advance("Resolved", trace)
    /\ UNCHANGED <<file, pre, req, prevRes>>

\* the splice of the first candidate; slicing outside the content panics
StageTransform ==
    /\ pc = "Resolved"
    /\ LET match == trace.candidates[1] IN
       IF ~(0 <= match.StartIndex /\ match.StartIndex <= Len(trace.originalContent)
            /\ 0 <= match.EndIndex /\ match.EndIndex <= Len(trace.originalContent))
       THEN Fail("panic", <<>>, trace)
       ELSE Advance("Transformed",
                    [trace EXCEPT !.transformed =
                        Splice(trace.originalContent, match, req.NewContent)])
    /\ UNCHANGED <<file, pre, req, prevRes>>

\* validation of the candidate content
StageValidate ==
    /\ pc = "Transformed"
    /\ \E env \in {"ok"} \cup (IF Parses(trace.transformed) THEN {"imports_error"} ELSE {}) :
        LET out == validate(file, trace.transformed, env)
            tr == [trace EXCEPT !.formatted = out.formatted]
        IN  /\ file' = out.file
            /\ IF out.kind # "" THEN Fail(out.kind, <<>>, tr)
               ELSE Advance("Validated", tr)
    /\ UNCHANGED <<pre, req, prevRes>>

\* the write of the formatted content and the return
StageCommit ==
    /\ pc = "Validated"
    /\ \E env \in {"ok", "mkdir_error", "write_open_error", "write_short_error"} :
        LET out == commit(file, trace.formatted, env) IN
        /\ file' = out.file
        /\ IF out.kind # "" THEN Fail(out.kind, <<>>, trace)
           ELSE /\ pc' = "Committed"
                /\ res' = successResult
                /\ trace' = Enter("Committed", trace)
    /\ UNCHANGED <<pre, req, prevRes>>

NextStages ==
    \/ StageBegin
    \/ StageMatch
    \/ StageResolve
    \/ StageTransform
    \/ StageValidate
    \/ StageCommit

SpecStages == InitStages /\ [][NextStages]_vars

\* the handler is sequential code without loops that wait: an invocation
\* that can take a step takes it
SpecStagesFair == SpecStages /\ WF_vars(NextStages)

\* the position of a stage in the chain
Rank(stage) ==
    CASE stage = "idle" -> 0
      [] stage = "Start" -> 1
      [] stage = "Matched" -> 2
      [] stage = "Resolved" -> 3
      [] stage = "Transformed" -> 4
      [] stage = "Validated" -> 5
      [] stage \in Terminal -> 6

\* the failure kinds an error result stands for
FailureKinds ==
    ValidationKinds \cup IOKinds \cup InvalidRequestKinds \cup {"no_match", "ambiguous"}

\* the stages entered so far are in the order of the chain, none twice, the
\* current one last; a result exists exactly at a terminal stage
StagesInOrder ==
    /\ \A i, j \in 1..Len(trace.stages) :
          i < j => Rank(trace.stages[i]) < Rank(trace.stages[j])
    /\ pc # "idle" => trace.stages[Len(trace.stages)] = pc
    /\ pc = "Committed" => res = successResult
    /\ pc = "Failed" => res.IsError /\ res.kind \in FailureKinds
    /\ pc \notin Terminal => res = NoRes
    /\ (pc = "Committed" /\ IsReplace) => trace.stages = Stages

\* a step moves forward in the chain and never leaves a terminal stage; the
\* path changes only in the step out of Validated, to the formatted content
\* on Committed (or as a failing os.WriteFile leaves it)
StepForward ==
    /\ pc \notin Terminal
    /\ Rank(pc) < Rank(pc')
    /\ file' # file =>
          /\ pc = "Validated"
          /\ \/ pc' = "Committed" /\ file' = trace.formatted
             \/ pc' = "Failed" /\ res'.kind = "write_failed"
    /\ pc' = "Committed" => pc = "Validated" /\ file' = trace.formatted

(* C22: the state machine of an invocation.  Every invocation goes through *)
(* Start, Matched, Resolved, Transformed, Validated in that order without  *)
(* entering a stage twice, and always ends in exactly one terminal stage,  *)
(* Committed or Failed(kind), with a structured result and not a fault;    *)
(* the one write to the target path is made in the step from Validated to  *)
(* Committed and nothing is written after a terminal stage.                *)
C22_StateMachine ==
    /\ StagesInOrder
    /\ [][StepForward /\ StagesInOrder']_vars
    /\ (pc = "Start") ~> (pc \in Terminal)

C22_Witness ==
    /\ pc = "Committed"
    /\ req.Strategy = "single_match"
    /\ trace.stages = Stages
    /\ pre = <<"a", NL, SP, "a">>
    /\ req.SearchContext = <<SP, "a">>
    /\ req.NewContent = <<"b">>
    /\ file = <<"a", NL, "b", NL>>

====
